---- MODULE Spec2Model ----
(***************************************************************************)
(* Dental Guardians: the menu, the status record and the main loop.        *)
(*                                                                         *)
(* The repository holds two snapshots of Menu: the one of game_objects.py  *)
(* (used by scenes.py) and the older one of game.py (used by game.py's     *)
(* main).  Both are modelled; `impl` says which one a menu object is.      *)
(* Python's None is the string "None"; an exception that leaves a call is  *)
(* recorded by its class name.                                             *)
(***************************************************************************)
EXTENDS Integers, Sequences, FiniteSets, TLC

VARIABLES
    \* ---- one Menu object and the calls made on it
    impl,            \* "game_objects" or "game": the class the object is of
    options,         \* Menu.options: sequence of <<label, payload>>, in insertion order
    current_option,  \* Menu.current_option
    raised,          \* "none", or the exception that left the last call
    result,          \* what the last get_option call returned ("unset" before any)
    last_op,         \* "init", "update_option" or "get_option"
    sum_diff,        \* the sum of the diffs passed to update_option so far
    calls,           \* number of calls made
    \* ---- one Status object (game_objects.py)
    st_status,       \* Status.status
    st_weapon,       \* Status.weapon
    st_item,         \* Status.item
    st_arg,          \* the argument of the last Status.update call ("unset" before any)
    \* ---- the locals of main() in game.py
    pc,              \* "loop" (at the while test), "events" (in the for loop), "done", "crashed"
    events,          \* the part of pygame.event.get()'s list the for loop has not handled yet
    status,          \* status
    playing,         \* playing
    active_menu,     \* active_menu: the key of the menu in `menus`, or "None"
    active_overlay,  \* active_overlay: the key of the overlay in `overlays`, or "None"
    enemy,           \* enemy: a key of `enemies`, or "None"
    title_option,    \* menus[TITLE_SCREEN].current_option
    battle_overlay,  \* the list overlays[BATTLE_START]
    error,           \* "none", or the exception that ended main()
    \* ---- one Enemy object (game_objects.py) and the calls made on it
    en_hp,           \* Enemy.hp
    en_max_hp,       \* Enemy.max_hp
    en_weakness,     \* Enemy.weakness: a WeaponType, or "None"
    en_op,           \* "init", "take_damage" or "get_healthbar": the last call
    en_arg,          \* the weapon of the last take_damage call ("None" before any)
    en_ret,          \* what the last take_damage call returned (0 before any)
    en_bar,          \* the last health bar drawn: <<hp shown, max_hp shown, bar width>>
    en_calls,        \* number of take_damage calls made
    \* ---- one Player object (game_objects.py) and the calls made on it
    pl_hp2,          \* Player.hp, in half points (defence / 2 makes halves)
    pl_max_hp,       \* Player.max_hp
    pl_defence,      \* Player.defence
    pl_op,           \* "init", "take_damage" or "use": the last call
    pl_arg2,         \* the dmg of the last take_damage call, in half points
    pl_ret2,         \* what the last take_damage call returned, in half points
    pl_calls,        \* number of calls made
    \* ---- one Scene or BattleScene object (scenes.py) and its renders
    sc_kind,         \* "Scene" or "BattleScene": the class the object is of
    sc_bg,           \* Scene.bg: an image, or "None"
    sc_statics,      \* Scene.statics: sequence of [key, object, pos], in insertion order
    sc_menu,         \* Scene.menu: the Printable [object, pos]
    sc_enemy,        \* BattleScene.enemy: the Printable [object, pos]
    sc_healthbar,    \* BattleScene.healthbar: the Printable [object, pos]; object is a drawn bar or <<>>
    sc_status,       \* the status handed to get_surface
    sc_surface,      \* the surface the last get_surface returned, cell by cell (<<>> if none)
    sc_log,          \* the blits the last get_surface made, in order
    sc_raised,       \* "none", or the exception that left the last get_surface
    sc_renders,      \* number of get_surface calls made
    \* ---- the scenes generate_scenes builds, the enemies, and what is done with them
    gs_enemy_obj,    \* .object of each enemy Printable (named by the scene that built it)
    gs_health_obj,   \* .object of each health bar Printable: a drawn bar, or <<>>
    gs_hp,           \* Enemy.hp of each enemy
    gs_status,       \* the current status, one of the battle statuses
    gs_op,           \* "init", "assign", "hit", "status" or "render": the last step
    gs_raised,       \* "none", or the exception that left a render
    gs_hits,         \* number of take_damage calls made
    \* ---- one TextBox and one call of its format_text
    tb_size,         \* self.size[0], the width of the box
    tb_glyph,        \* self.font.size('0')[0], the width of one glyph
    tb_text,         \* self.text, the lines shown
    ft_text,         \* the argument text, a sequence of characters
    ft_pc,           \* "for" (between strings), "while" (in the loop) or "done"
    ft_lines,        \* the strings of text.split('\n') not yet wrapped
    ft_string,       \* the string being wrapped
    ft_prev,         \* prev
    ft_idx,          \* idx
    ft_split,        \* split
    ft_n_lines,      \* n_lines
    ft_final_lines,  \* final_lines
    ft_raised,       \* "none", or the exception that left format_text
    \* ---- one Enemy, its sprites, and the calls of get_sprite made on it
    sp_impl,         \* "game" (game.py) or "game_objects": the class of the Enemy
    sp_sprites,      \* the keys of self.sprites that hold a loaded sprite (the others hold None)
    sp_status,       \* the status of the last get_sprite call, or None
    sp_ret           \* what the last call returned: the key of the sprite drawn, or "transparent"

menuVars   == <<impl, options, current_option, raised, result, last_op, sum_diff, calls>>
statusVars == <<st_status, st_weapon, st_item, st_arg>>
mainVars   == <<pc, events, status, playing, active_menu, active_overlay, enemy,
                title_option, battle_overlay, error>>
enemyVars  == <<en_hp, en_max_hp, en_weakness, en_op, en_arg, en_ret, en_bar, en_calls>>
playerVars == <<pl_hp2, pl_max_hp, pl_defence, pl_op, pl_arg2, pl_ret2, pl_calls>>
sceneVars  == <<sc_kind, sc_bg, sc_statics, sc_menu, sc_enemy, sc_healthbar, sc_status,
                sc_surface, sc_log, sc_raised, sc_renders>>
scenesVars == <<gs_enemy_obj, gs_health_obj, gs_hp, gs_status, gs_op, gs_raised, gs_hits>>
textVars   == <<tb_size, tb_glyph, tb_text, ft_text, ft_pc, ft_lines, ft_string, ft_prev, ft_idx,
                ft_split, ft_n_lines, ft_final_lines, ft_raised>>
spriteVars == <<sp_impl, sp_sprites, sp_status, sp_ret>>
vars       == <<menuVars, statusVars, mainVars, enemyVars, playerVars, sceneVars, scenesVars,
                textVars, spriteVars>>

----------------------------------------------------------------------------
(* Bounds of the model *)

MaxOptions == 3
MaxDelta   == 3
MaxCalls   == 3
MaxEvents  == 2
MaxHp      == 5
MaxHits    == 3
MaxDmg     == 3
MaxPlayerCalls == 4
MaxStatics == 2
MaxPos     == 1
ObjWidth   == 2
MaxRenders == 2
MaxLen     == 4
MaxBoxWidth == 4
MaxGlyph   == 2
MaxLines   == 5

----------------------------------------------------------------------------
(* Enumerations and catalogues *)

None == "None"

GameStatus ==
    {"TITLE_SCREEN", "CREDITS", "EXIT", "BATTLE_START", "BATTLE_MENU", "ITEM_MENU",
     "WEAPON_MENU", "USE_ITEM", "PLAYER_ATTACK", "ENEMY_ATTACK", "VICTORY", "DEFEAT"}

GameStatus_game == GameStatus \ {"USE_ITEM"}

Weapons == {"toothbrush", "floss"}

Items == {"toothpaste", "mouthwash"}

isWeapon(x) == x \in Weapons

isItem(x) == x \in Items

isGameStatus(x) == x \in GameStatus

\* Labels of the options of a menu: the keys of the dict, unique.
LabelPool == <<"Weapon", "Consumable", "Exit", "Back", "Start", "Credits">>

\* Payloads the menus of the program carry: a status, a weapon, an item or None.
MenuPayloads == {"BATTLE_MENU", "toothbrush", None}

\* The option dicts drawn for a menu: 0..MaxOptions entries, labels unique.
OptionDicts ==
    UNION { { [i \in 1..n |-> <<LabelPool[i], p[i]>>] : p \in [1..n -> MenuPayloads] }
            : n \in 0..MaxOptions }

----------------------------------------------------------------------------
(* Menu (game_objects.py) *)

\* update_option without the negative wrap: a negative index is kept.
Menu_update_option_nowrap(opts, cur, diff) ==
    IF Len(opts) # 0
    THEN LET c == cur + diff
             n == Len(opts)
         IN  [current_option |-> IF c >= n THEN c % n ELSE c, raised |-> "none"]
    ELSE [current_option |-> cur, raised |-> "none"]

Menu_update_option(opts, cur, diff) ==
    IF Len(opts) # 0
    THEN LET c == cur + diff
             n == Len(opts)
         IN  [current_option |-> IF c >= n THEN c % n
                                 ELSE IF c < 0 THEN n - 1
                                 ELSE c,
              raised |-> "none"]
    ELSE [current_option |-> cur, raised |-> "none"]

\* tuple(self.options.values())
values(opts) == [i \in 1..Len(opts) |-> opts[i][2]]

\* Python's indexing of a tuple of length n: t[i] for -n <= i < n, else IndexError.
Subscript(t, i) ==
    IF i >= 0 /\ i < Len(t) THEN [value |-> t[i + 1], raised |-> "none"]
    ELSE IF i < 0 /\ i >= -Len(t) THEN [value |-> t[Len(t) + i + 1], raised |-> "none"]
    ELSE [value |-> None, raised |-> "IndexError"]

\* get_option that reads the option after the selected one.
Menu_get_option_next(opts, cur) ==
    IF Len(opts) # 0 THEN Subscript(values(opts), (cur + 1) % Len(opts))
    ELSE [value |-> None, raised |-> "none"]

Menu_get_option(opts, cur) ==
    IF Len(opts) # 0 THEN Subscript(values(opts), cur)
    ELSE [value |-> None, raised |-> "none"]

----------------------------------------------------------------------------
(* Menu (game.py) *)

GameMenu_update_option(opts, cur, diff) ==
    LET c == cur + diff
        n == Len(opts)
    IN  IF c >= n
        THEN IF n = 0 THEN [current_option |-> c, raised |-> "ZeroDivisionError"]
             ELSE [current_option |-> c % n, raised |-> "none"]
        ELSE IF c < 0 THEN [current_option |-> n - 1, raised |-> "none"]
        ELSE [current_option |-> c, raised |-> "none"]

\* self.options[key]
Lookup(opts, key) ==
    LET hits == {i \in 1..Len(opts) : opts[i][1] = key}
    IN  opts[CHOOSE i \in hits : TRUE][2]

\* get_option that consumes nothing of the iterator: the first option, whatever the index.
GameMenu_get_option_first(opts, cur) ==
    IF Len(opts) = 0 THEN [value |-> None, raised |-> "StopIteration"]
    ELSE [value |-> Lookup(opts, opts[1][1]), raised |-> "none"]

\* it = iter(self.options); next(islice(it, opt, opt), None); self.options[next(it)]
GameMenu_get_option(opts, cur) ==
    IF cur < 0 THEN [value |-> None, raised |-> "ValueError"]
    ELSE IF cur >= Len(opts) THEN [value |-> None, raised |-> "StopIteration"]
    ELSE [value |-> Lookup(opts, opts[cur + 1][1]), raised |-> "none"]

----------------------------------------------------------------------------
(* A Menu object under arbitrary calls *)

update_option(i, opts, cur, diff) ==
    IF i = "game_objects" THEN Menu_update_option(opts, cur, diff)
    ELSE GameMenu_update_option(opts, cur, diff)

get_option(i, opts, cur) ==
    IF i = "game_objects" THEN Menu_get_option(opts, cur)
    ELSE GameMenu_get_option(opts, cur)

MenuInit ==
    /\ impl \in {"game_objects", "game"}
    /\ options \in OptionDicts
    /\ current_option = 0
    /\ raised = "none"
    /\ result = "unset"
    /\ last_op = "init"
    /\ sum_diff = 0
    /\ calls = 0

MenuParked ==
    /\ impl = "game_objects"
    /\ options = <<>>
    /\ current_option = 0
    /\ raised = "none"
    /\ result = "unset"
    /\ last_op = "init"
    /\ sum_diff = 0
    /\ calls = 0

UpdateOption(diff) ==
    /\ raised = "none"
    /\ calls < MaxCalls
    /\ LET r == update_option(impl, options, current_option, diff)
       IN  /\ current_option' = r.current_option
           /\ raised' = r.raised
    /\ sum_diff' = sum_diff + diff
    /\ last_op' = "update_option"
    /\ calls' = calls + 1
    /\ UNCHANGED <<impl, options, result>>
    /\ UNCHANGED <<statusVars, mainVars, enemyVars, playerVars, sceneVars, scenesVars, textVars, spriteVars>>

GetOption ==
    /\ raised = "none"
    /\ calls < MaxCalls
    /\ LET r == get_option(impl, options, current_option)
       IN  /\ result' = r.value
           /\ raised' = r.raised
    /\ last_op' = "get_option"
    /\ calls' = calls + 1
    /\ UNCHANGED <<impl, options, current_option, sum_diff>>
    /\ UNCHANGED <<statusVars, mainVars, enemyVars, playerVars, sceneVars, scenesVars, textVars, spriteVars>>

MenuNext ==
    \/ \E diff \in (-MaxDelta)..MaxDelta : UpdateOption(diff)
    \/ GetOption

----------------------------------------------------------------------------
(* Status (game_objects.py) *)

\* update that assigns whatever it is given, as `status = active_menu.get_option()` does.
Status_update_assign(st, new_status) ==
    IF isWeapon(new_status)
    THEN [st EXCEPT !.status = "PLAYER_ATTACK", !.weapon = new_status]
    ELSE IF isItem(new_status)
    THEN [st EXCEPT !.status = "USE_ITEM", !.item = new_status]
    ELSE [st EXCEPT !.status = new_status]

\* update that forgets to record the weapon or item it was given.
Status_update_norecord(st, new_status) ==
    IF isGameStatus(new_status) THEN [st EXCEPT !.status = new_status]
    ELSE IF isWeapon(new_status) THEN [st EXCEPT !.status = "PLAYER_ATTACK"]
    ELSE IF isItem(new_status) THEN [st EXCEPT !.status = "USE_ITEM"]
    ELSE st

Status_update(st, new_status) ==
    IF isGameStatus(new_status)
    THEN [st EXCEPT !.status = new_status]
    ELSE IF isWeapon(new_status)
    THEN [st EXCEPT !.status = "PLAYER_ATTACK", !.weapon = new_status]
    ELSE IF isItem(new_status)
    THEN [st EXCEPT !.status = "USE_ITEM", !.item = new_status]
    ELSE st

\* What a menu selection can hand to Status.update.
UpdateArgs == GameStatus \cup Weapons \cup Items \cup {None}

\* Status.__init__(status)
StatusInit ==
    /\ st_status \in GameStatus
    /\ st_weapon = None
    /\ st_item = None
    /\ st_arg = "unset"

StatusParked ==
    /\ st_status = "TITLE_SCREEN"
    /\ st_weapon = None
    /\ st_item = None
    /\ st_arg = "unset"

Update(new_status) ==
    LET st == Status_update([status |-> st_status, weapon |-> st_weapon, item |-> st_item],
                            new_status)
    IN  /\ st_status' = st.status
        /\ st_weapon' = st.weapon
        /\ st_item' = st.item
        /\ st_arg' = new_status
        /\ UNCHANGED <<menuVars, mainVars, enemyVars, playerVars, sceneVars, scenesVars, textVars, spriteVars>>

StatusNext == \E a \in UpdateArgs : Update(a)

----------------------------------------------------------------------------
(* main() of game.py *)

\* load_enemies: one Enemy per folder of images/enemies
Enemies == {"plaque", "cavity"}

\* generate_menus: menus[TITLE_SCREEN].options
TitleOptions ==
    <<<<"Start", "BATTLE_START">>, <<"Credits", "CREDITS">>, <<"Exit", "EXIT">>>>

\* menus.get(status, None): the key of the menu, the title menu being the only one
menus_get(st) == IF st = "TITLE_SCREEN" THEN "TITLE_SCREEN" ELSE None

\* overlays.get(status, None): the key of the overlay
overlays_get(st) == IF st \in {"TITLE_SCREEN", "BATTLE_START"} THEN st ELSE None

\* isinstance(active_overlay, list): only overlays[BATTLE_START] is a list
is_list(ov) == ov = "BATTLE_START"

\* generate_overlays: overlays[BATTLE_START] as built
BattleOverlayInit == <<<<"image", "example_layout">>>>

\* Enemy.get_sprite of game.py: the slot is "idle" for every status
GameEnemy_get_sprite(e, st) ==
    LET status_sprite == [s \in {"BATTLE_START"} |-> "idle"]
        slot == IF st \in DOMAIN status_sprite THEN status_sprite[st] ELSE "idle"
    IN  <<"sprite", e, slot>>

\* Enemy.get_healthbar of game.py: the name on a filled surface
GameEnemy_get_healthbar(e) == <<"healthbar", e>>

\* The events pygame delivers: the quit signal, four keys, and anything else.
EventKinds == {"QUIT", "K_UP", "K_DOWN", "K_RETURN", "K_OTHER", "MOUSEMOTION"}

isKeyDown(e) == e \in {"K_UP", "K_DOWN", "K_RETURN", "K_OTHER"}

\* What one call of pygame.event.get() can return.
Batches == UNION { [1..n -> EventKinds] : n \in 0..MaxEvents }

MainInit ==
    /\ pc = "loop"
    /\ events = <<>>
    /\ status = "TITLE_SCREEN"
    /\ playing = TRUE
    /\ active_menu = None
    /\ active_overlay = None
    /\ enemy = None
    /\ title_option = 0
    /\ battle_overlay = BattleOverlayInit
    /\ error = "none"

\* The loop as `while True:`: the events are polled whatever `playing` is.
PollEvents_always(batch) ==
    /\ pc = "loop"
    /\ events' = batch
    /\ pc' = "events"
    /\ UNCHANGED <<status, playing, active_menu, active_overlay, enemy, title_option,
                   battle_overlay, error>>
    /\ UNCHANGED <<menuVars, statusVars, enemyVars, playerVars, sceneVars, scenesVars, textVars, spriteVars>>

\* while playing: ... for event in pygame.event.get():
PollEvents(batch) ==
    /\ pc = "loop"
    /\ playing
    /\ events' = batch
    /\ pc' = "events"
    /\ UNCHANGED <<status, playing, active_menu, active_overlay, enemy, title_option,
                   battle_overlay, error>>
    /\ UNCHANGED <<menuVars, statusVars, enemyVars, playerVars, sceneVars, scenesVars, textVars, spriteVars>>

\* while playing: false, the loop is left
ExitLoop ==
    /\ pc = "loop"
    /\ ~playing
    /\ pc' = "done"
    /\ UNCHANGED <<events, status, playing, active_menu, active_overlay, enemy,
                   title_option, battle_overlay, error>>
    /\ UNCHANGED <<menuVars, statusVars, enemyVars, playerVars, sceneVars, scenesVars, textVars, spriteVars>>

\* if event.type == pygame.QUIT: playing = False
HandleQuit ==
    /\ pc = "events"
    /\ events # <<>>
    /\ Head(events) = "QUIT"
    /\ playing' = FALSE
    /\ events' = Tail(events)
    /\ UNCHANGED <<pc, status, active_menu, active_overlay, enemy, title_option,
                   battle_overlay, error>>
    /\ UNCHANGED <<menuVars, statusVars, enemyVars, playerVars, sceneVars, scenesVars, textVars, spriteVars>>

\* K_UP / K_DOWN with a menu active: active_menu.update_option(-1 / 1)
HandleNavigate ==
    /\ pc = "events"
    /\ events # <<>>
    /\ Head(events) \in {"K_UP", "K_DOWN"}
    /\ active_menu # None
    /\ LET diff == IF Head(events) = "K_UP" THEN -1 ELSE 1
           r == GameMenu_update_option(TitleOptions, title_option, diff)
       IN  /\ title_option' = r.current_option
           /\ error' = r.raised
           /\ pc' = IF r.raised = "none" THEN pc ELSE "crashed"
    /\ events' = Tail(events)
    /\ UNCHANGED <<status, playing, active_menu, active_overlay, enemy, battle_overlay>>
    /\ UNCHANGED <<menuVars, statusVars, enemyVars, playerVars, sceneVars, scenesVars, textVars, spriteVars>>

\* K_RETURN with a menu active: status = active_menu.get_option(); the actives are reset
HandleReturn ==
    /\ pc = "events"
    /\ events # <<>>
    /\ Head(events) = "K_RETURN"
    /\ active_menu # None
    /\ LET r == GameMenu_get_option(TitleOptions, title_option)
       IN  IF r.raised = "none"
           THEN /\ status' = r.value
                /\ active_menu' = None
                /\ active_overlay' = None
                /\ UNCHANGED <<pc, error>>
           ELSE /\ error' = r.raised
                /\ pc' = "crashed"
                /\ UNCHANGED <<status, active_menu, active_overlay>>
    /\ events' = Tail(events)
    /\ UNCHANGED <<playing, enemy, title_option, battle_overlay>>
    /\ UNCHANGED <<menuVars, statusVars, enemyVars, playerVars, sceneVars, scenesVars, textVars, spriteVars>>

\* Any other event, or a key while no menu is active: nothing happens
HandleIgnored ==
    /\ pc = "events"
    /\ events # <<>>
    /\ \/ ~isKeyDown(Head(events)) /\ Head(events) # "QUIT"
       \/ isKeyDown(Head(events)) /\ active_menu = None
       \/ Head(events) = "K_OTHER"
    /\ events' = Tail(events)
    /\ UNCHANGED <<pc, status, playing, active_menu, active_overlay, enemy, title_option,
                   battle_overlay, error>>
    /\ UNCHANGED <<menuVars, statusVars, enemyVars, playerVars, sceneVars, scenesVars, textVars, spriteVars>>

\* The BATTLE_START branch appending both surfaces at every frame.
PutOverlay_append(ov, e, st) ==
    Append(Append(ov, GameEnemy_get_sprite(e, st)), GameEnemy_get_healthbar(e))

\* The list overlays[BATTLE_START] after the BATTLE_START branch has run for enemy e
PutOverlay(ov, e, st) ==
    LET one == IF Len(ov) > 1 THEN [ov EXCEPT ![2] = GameEnemy_get_sprite(e, st)]
               ELSE Append(ov, GameEnemy_get_sprite(e, st))
    IN  IF Len(one) > 2 THEN [one EXCEPT ![3] = GameEnemy_get_healthbar(e)]
        ELSE Append(one, GameEnemy_get_healthbar(e))

\* The rest of the iteration once the for loop is over: the actives are set from the
\* status, the branch of the status runs, the frame is drawn.
FrameBody ==
    /\ pc = "events"
    /\ events = <<>>
    /\ LET menu == IF active_menu = None THEN menus_get(status) ELSE active_menu
           overlay == IF active_overlay = None THEN overlays_get(status) ELSE active_overlay
       IN  /\ active_menu' = menu
           /\ active_overlay' = overlay
           /\ IF status = "BATTLE_START"
              THEN IF ~is_list(overlay)
                   THEN /\ error' = "AssertionError"
                        /\ pc' = "crashed"
                        /\ UNCHANGED <<enemy, battle_overlay, playing>>
                   ELSE \E e \in (IF enemy = None THEN Enemies ELSE {enemy}) :
                        /\ enemy' = e
                        /\ battle_overlay' = PutOverlay(battle_overlay, e, status)
                        /\ pc' = "loop"
                        /\ UNCHANGED <<error, playing>>
              ELSE /\ playing' = IF status = "EXIT" THEN FALSE ELSE playing
                   /\ pc' = "loop"
                   /\ UNCHANGED <<enemy, battle_overlay, error>>
    /\ UNCHANGED <<events, status, title_option>>
    /\ UNCHANGED <<menuVars, statusVars, enemyVars, playerVars, sceneVars, scenesVars, textVars, spriteVars>>

MainNext ==
    \/ \E batch \in Batches : PollEvents(batch)
    \/ HandleQuit
    \/ HandleNavigate
    \/ HandleReturn
    \/ HandleIgnored
    \/ FrameBody
    \/ ExitLoop

----------------------------------------------------------------------------
(* Enemy (game_objects.py) *)

WeaponType == {"NONE", "BRUSH", "FLOSS"}

ItemType == {"NONE", "DEFENCE", "DAMAGE"}

\* Weapon.type of the weapons of the catalogue
weapon_type(w) == IF w = "toothbrush" THEN "BRUSH" ELSE "FLOSS"

\* Item.type of the items of the catalogue
item_type(i) == IF i = "toothpaste" THEN "DEFENCE" ELSE "DAMAGE"

\* dmg = 2 in Enemy.take_damage
BaseDamage == 2

\* screen_size()[0]
ScreenWidth == 800

\* bar_width = size[0] - 30 with the default size (width // 2, height // 4.8)
BarWidth == (ScreenWidth \div 2) - 30

\* Python's round() of the fraction n / d, d > 0: to the nearest, ties to even
round(n, d) ==
    LET q == n \div d
        r == n % d
    IN  IF 2 * r < d THEN q
        ELSE IF 2 * r > d THEN q + 1
        ELSE IF q % 2 = 0 THEN q ELSE q + 1

\* take_damage that tests the weakness the wrong way round.
Enemy_take_damage_inverted(hp, weakness, w) ==
    LET dmg == IF weapon_type(w) # weakness THEN BaseDamage * 2 ELSE BaseDamage
    IN  [hp |-> hp - dmg, ret |-> dmg]

\* dmg = 2; if weapon.type is self.weakness: dmg *= 2; self.hp -= dmg; return dmg
Enemy_take_damage(hp, weakness, w) ==
    LET dmg == IF weapon_type(w) = weakness THEN BaseDamage * 2 ELSE BaseDamage
    IN  [hp |-> hp - dmg, ret |-> dmg]

\* get_healthbar: the text f"{self.hp}/{self.max_hp} HP" and the width of the bar
Enemy_get_healthbar(hp, max_hp) == <<hp, max_hp, round(BarWidth * hp, max_hp)>>

\* Enemy.__init__(name, hp, size, damage, weakness)
EnemyInit ==
    /\ en_max_hp \in 1..MaxHp
    /\ en_hp = en_max_hp
    /\ en_weakness \in {None, "BRUSH", "FLOSS"}
    /\ en_op = "init"
    /\ en_arg = None
    /\ en_ret = 0
    /\ en_bar = <<>>
    /\ en_calls = 0

EnemyParked ==
    /\ en_max_hp = 1
    /\ en_hp = 1
    /\ en_weakness = None
    /\ en_op = "init"
    /\ en_arg = None
    /\ en_ret = 0
    /\ en_bar = <<>>
    /\ en_calls = 0

TakeDamage(w) ==
    /\ en_calls < MaxHits
    /\ LET r == Enemy_take_damage(en_hp, en_weakness, w)
       IN  /\ en_hp' = r.hp
           /\ en_ret' = r.ret
    /\ en_arg' = w
    /\ en_op' = "take_damage"
    /\ en_calls' = en_calls + 1
    /\ UNCHANGED <<en_max_hp, en_weakness, en_bar>>
    /\ UNCHANGED <<menuVars, statusVars, mainVars, playerVars, sceneVars, scenesVars, textVars, spriteVars>>

GetHealthbar ==
    /\ en_bar' = Enemy_get_healthbar(en_hp, en_max_hp)
    /\ en_op' = "get_healthbar"
    /\ UNCHANGED <<en_hp, en_max_hp, en_weakness, en_arg, en_ret, en_calls>>
    /\ UNCHANGED <<menuVars, statusVars, mainVars, playerVars, sceneVars, scenesVars, textVars, spriteVars>>

EnemyNext ==
    \/ \E w \in Weapons : TakeDamage(w)
    \/ GetHealthbar

----------------------------------------------------------------------------
(* Player (game_objects.py) *)

\* use: a DEFENCE item raises the defence by one
Player_use(defence, i) == IF item_type(i) = "DEFENCE" THEN defence + 1 ELSE defence

\* take_damage without the floor on `taken`: a dmg below defence / 2 heals.
Player_take_damage_nofloor(hp2, defence, dmg2) ==
    LET taken2 == dmg2 - defence
        left2 == hp2 - taken2
    IN  [hp2 |-> IF left2 < 0 THEN 0 ELSE left2, ret2 |-> taken2]

\* taken = dmg - self.defence / 2, floored at 0; self.hp -= taken, floored at 0.
\* All amounts are in half points: hp2 = 2 * hp, dmg2 = 2 * dmg.
Player_take_damage(hp2, defence, dmg2) ==
    LET raw2 == dmg2 - defence
        taken2 == IF raw2 < 0 THEN 0 ELSE raw2
        left2 == hp2 - taken2
    IN  [hp2 |-> IF left2 < 0 THEN 0 ELSE left2, ret2 |-> taken2]

\* Player.__init__(max_hp, weapons, items)
PlayerInit ==
    /\ pl_max_hp \in 1..MaxHp
    /\ pl_hp2 = 2 * pl_max_hp
    /\ pl_defence = 0
    /\ pl_op = "init"
    /\ pl_arg2 = 0
    /\ pl_ret2 = 0
    /\ pl_calls = 0

PlayerParked ==
    /\ pl_max_hp = 1
    /\ pl_hp2 = 2
    /\ pl_defence = 0
    /\ pl_op = "init"
    /\ pl_arg2 = 0
    /\ pl_ret2 = 0
    /\ pl_calls = 0

PlayerTakeDamage(dmg2) ==
    /\ pl_calls < MaxPlayerCalls
    /\ LET r == Player_take_damage(pl_hp2, pl_defence, dmg2)
       IN  /\ pl_hp2' = r.hp2
           /\ pl_ret2' = r.ret2
    /\ pl_arg2' = dmg2
    /\ pl_op' = "take_damage"
    /\ pl_calls' = pl_calls + 1
    /\ UNCHANGED <<pl_max_hp, pl_defence>>
    /\ UNCHANGED <<menuVars, statusVars, mainVars, enemyVars, sceneVars, scenesVars, textVars, spriteVars>>

PlayerUse(i) ==
    /\ pl_calls < MaxPlayerCalls
    /\ pl_defence' = Player_use(pl_defence, i)
    /\ pl_op' = "use"
    /\ pl_calls' = pl_calls + 1
    /\ UNCHANGED <<pl_hp2, pl_max_hp, pl_arg2, pl_ret2>>
    /\ UNCHANGED <<menuVars, statusVars, mainVars, enemyVars, sceneVars, scenesVars, textVars, spriteVars>>

PlayerNext ==
    \/ \E dmg2 \in (-2)..(2 * MaxDmg) : PlayerTakeDamage(dmg2)
    \/ \E i \in Items : PlayerUse(i)

----------------------------------------------------------------------------
(* Scene and BattleScene (scenes.py) *)

(* A surface is a strip of cells, each holding the ink last put there.  The   *)
(* image an object renders is a sequence of ObjWidth inks; "transparent" ink   *)
(* leaves the cell below it as it was, as a blit of a transparent pixel does. *)

NCells == MaxPos + ObjWidth

Positions == 0..MaxPos

\* The keys of a statics dict, unique.
KeyPool == <<"title_box", "info_box", "menu", "box4", "box5">>

\* Enemy.sprites after load_sprites: the slots whose file was found
EnemySprites(e) == IF e = "plaque" THEN {"idle", "hurt", "attack", "defeat"} ELSE {"idle"}

\* Enemy.get_sprite: the slot of the status, the first slot if that one is empty,
\* a transparent surface if that is empty too
Enemy_get_sprite(e, st) ==
    LET status_sprite == [x \in {"BATTLE_START", "BATTLE_MENU", "PLAYER_ATTACK", "ENEMY_ATTACK"}
                            |-> IF x = "PLAYER_ATTACK" THEN "hurt"
                                ELSE IF x = "ENEMY_ATTACK" THEN "attack"
                                ELSE "idle"]
        slot == IF st \in DOMAIN status_sprite THEN status_sprite[st] ELSE None
    IN  IF slot \in EnemySprites(e) THEN slot
        ELSE IF "idle" \in EnemySprites(e) THEN "idle"
        ELSE "transparent"

\* object.get_surface(): a TextBox fills its box, a Menu fills it with its background
\* colour, which is transparent by default ("menu_clear": only the text is inked)
ObjectImage(obj) ==
    [i \in 1..ObjWidth |-> IF obj = "menu_clear" /\ i > 1 THEN "transparent" ELSE obj]

\* The sprite surface: transparent but for the sprite, whose colour key leaves holes
SpriteImage(slot) ==
    [i \in 1..ObjWidth |-> IF slot = "transparent" \/ i > 1 THEN "transparent" ELSE slot]

\* The health bar surface: filled and bordered
HealthbarImage == [i \in 1..ObjWidth |-> "healthbar"]

\* surface.blit(image, pos)
Blit(surface, image, pos) ==
    [c \in 1..NCells |->
        IF c > pos /\ c <= pos + Len(image) /\ image[c - pos] # "transparent"
        THEN image[c - pos] ELSE surface[c]]

\* for static in self.statics.values(): if static.object is not None: blit
RECURSIVE DrawStatics(_, _, _)
DrawStatics(acc, statics, i) ==
    IF i > Len(statics) THEN acc
    ELSE LET st == statics[i]
         IN  DrawStatics(
                 IF st.object # None
                 THEN [surface |-> Blit(acc.surface, ObjectImage(st.object), st.pos),
                       log |-> Append(acc.log, <<"static", st.key>>)]
                 ELSE acc,
                 statics, i + 1)

\* get_surface that puts the menu first and the statics over it.
Scene_get_surface_menufirst(bg, statics, menu) ==
    LET filled == [surface |-> [c \in 1..NCells |-> "white"], log |-> <<<<"fill", "white">>>>]
        withbg == IF bg # None
                  THEN [surface |-> Blit(filled.surface, [c \in 1..NCells |-> bg], 0),
                        log |-> Append(filled.log, <<"bg", bg>>)]
                  ELSE filled
        withmenu == IF menu.object # None
                    THEN [surface |-> Blit(withbg.surface, ObjectImage(menu.object), menu.pos),
                          log |-> Append(withbg.log, <<"menu", menu.object>>)]
                    ELSE withbg
    IN  DrawStatics(withmenu, statics, 1)

\* Scene.get_surface: fill, background, statics in order, menu
Scene_get_surface(bg, statics, menu) ==
    LET filled == [surface |-> [c \in 1..NCells |-> "white"], log |-> <<<<"fill", "white">>>>]
        withbg == IF bg # None
                  THEN [surface |-> Blit(filled.surface, [c \in 1..NCells |-> bg], 0),
                        log |-> Append(filled.log, <<"bg", bg>>)]
                  ELSE filled
        withstatics == DrawStatics(withbg, statics, 1)
    IN  IF menu.object # None
        THEN [surface |-> Blit(withstatics.surface, ObjectImage(menu.object), menu.pos),
              log |-> Append(withstatics.log, <<"menu", menu.object>>)]
        ELSE withstatics

\* BattleScene.get_surface: Scene's, then the enemy sprite, then the health bar.
\* self.enemy.object.get_sprite is called before enemy.object is tested for None.
BattleScene_get_surface(bg, statics, menu, enemy_p, healthbar_p, st, hp, max_hp) ==
    LET base == Scene_get_surface(bg, statics, menu)
    IN  IF enemy_p.object = None
        THEN [surface |-> <<>>, log |-> base.log, raised |-> "AttributeError",
              healthbar |-> healthbar_p.object]
        ELSE LET sprite == Enemy_get_sprite(enemy_p.object, st)
                 one == Blit(base.surface, SpriteImage(sprite), enemy_p.pos)
                 two == Blit(one, HealthbarImage, healthbar_p.pos)
             IN  [surface |-> two,
                  log |-> base.log \o <<<<"enemy", sprite>>, <<"healthbar", "">>>>,
                  raised |-> "none",
                  healthbar |-> Enemy_get_healthbar(hp, max_hp)]

\* The statics dicts drawn for a scene: 0..MaxStatics Printables, each set or unset
StaticsDicts ==
    UNION { { [i \in 1..n |-> [key |-> KeyPool[i],
                               object |-> IF set[i] THEN KeyPool[i] ELSE None,
                               pos |-> at[i]]]
              : set \in [1..n -> BOOLEAN], at \in [1..n -> Positions] }
            : n \in 0..MaxStatics }

Printables(objects) == [object : objects, pos : Positions]

\* Scene(bg, menu, statics) or BattleScene(bg, menu, statics, enemy, healthbar)
SceneInit ==
    /\ sc_kind \in {"Scene", "BattleScene"}
    /\ sc_bg \in {None, "dentist"}
    /\ sc_statics \in StaticsDicts
    /\ sc_menu \in Printables({None, "menu_opaque", "menu_clear"})
    /\ sc_enemy \in (IF sc_kind = "Scene" THEN {[object |-> None, pos |-> 0]}
                     ELSE Printables({None, "plaque"}))
    /\ sc_healthbar \in (IF sc_kind = "Scene" THEN {[object |-> <<>>, pos |-> 0]}
                         ELSE [object : {<<>>}, pos : Positions])
    /\ sc_status \in (IF sc_kind = "Scene" THEN {"TITLE_SCREEN"}
                      ELSE {"BATTLE_START", "PLAYER_ATTACK"})
    /\ sc_surface = <<>>
    /\ sc_log = <<>>
    /\ sc_raised = "none"
    /\ sc_renders = 0

SceneParked ==
    /\ sc_kind = "Scene"
    /\ sc_bg = None
    /\ sc_statics = <<>>
    /\ sc_menu = [object |-> None, pos |-> 0]
    /\ sc_enemy = [object |-> None, pos |-> 0]
    /\ sc_healthbar = [object |-> <<>>, pos |-> 0]
    /\ sc_status = "TITLE_SCREEN"
    /\ sc_surface = <<>>
    /\ sc_log = <<>>
    /\ sc_raised = "none"
    /\ sc_renders = 0

\* scene.get_surface(status) on a Scene
RenderScene ==
    /\ sc_kind = "Scene"
    /\ sc_renders < MaxRenders
    /\ LET r == Scene_get_surface(sc_bg, sc_statics, sc_menu)
       IN  /\ sc_surface' = r.surface
           /\ sc_log' = r.log
    /\ sc_raised' = "none"
    /\ sc_renders' = sc_renders + 1
    /\ UNCHANGED <<sc_kind, sc_bg, sc_statics, sc_menu, sc_enemy, sc_healthbar, sc_status>>
    /\ UNCHANGED <<menuVars, statusVars, mainVars, enemyVars, playerVars, scenesVars, textVars, spriteVars>>

\* scene.get_surface(status) on a BattleScene; its enemy, when set, is at full hp
RenderBattleScene ==
    /\ sc_kind = "BattleScene"
    /\ sc_raised = "none"
    /\ sc_renders < MaxRenders
    /\ LET r == BattleScene_get_surface(sc_bg, sc_statics, sc_menu, sc_enemy, sc_healthbar,
                                        sc_status, MaxHp, MaxHp)
       IN  /\ sc_surface' = r.surface
           /\ sc_log' = r.log
           /\ sc_raised' = r.raised
           /\ sc_healthbar' = [sc_healthbar EXCEPT !.object = r.healthbar]
    /\ sc_renders' = sc_renders + 1
    /\ UNCHANGED <<sc_kind, sc_bg, sc_statics, sc_menu, sc_enemy, sc_status>>
    /\ UNCHANGED <<menuVars, statusVars, mainVars, enemyVars, playerVars, scenesVars, textVars, spriteVars>>

SceneNext ==
    \/ RenderScene
    \/ RenderBattleScene

----------------------------------------------------------------------------
(* The scenes of generate_scenes (scenes.py) *)

\* The statuses generate_scenes builds a BattleScene for
BattleStatuses ==
    {"BATTLE_START", "BATTLE_MENU", "WEAPON_MENU", "ITEM_MENU", "PLAYER_ATTACK", "USE_ITEM",
     "ENEMY_ATTACK"}

\* Enemy.weakness of the enemies of the catalogue
EnemyWeakness(e) == IF e = "plaque" THEN "BRUSH" ELSE None

\* generate_scenes that gives every scene a Printable of its own.
scene_enemy_own(s) == s

\* scenes[s].enemy: the Printable built for BATTLE_START (scenes.py:203), handed to every
\* later scene as enemy=scenes[GameStatus.BATTLE_START].enemy
scene_enemy(s) == "BATTLE_START"

\* scenes[s].healthbar: the Printable built for BATTLE_START (scenes.py:204)
scene_healthbar(s) == "BATTLE_START"

\* scenes[s].menu as built: BATTLE_MENU, WEAPON_MENU and ITEM_MENU have a Menu
scene_menu(s) ==
    [object |-> IF s \in {"BATTLE_MENU", "WEAPON_MENU", "ITEM_MENU"} THEN "menu_opaque" ELSE None,
     pos |-> 0]

\* scenes[s].statics as built: an info_box, and for BATTLE_START a Menu of dead options
scene_statics(s) ==
    <<[key |-> "info_box", object |-> "info_box", pos |-> MaxPos]>>
    \o (IF s = "BATTLE_START" THEN <<[key |-> "menu", object |-> "menu", pos |-> 0]>>
        ELSE <<>>)

\* generate_scenes() has returned; load_enemies gives every enemy the same hp
ScenesInit ==
    /\ gs_enemy_obj = [p \in BattleStatuses |-> None]
    /\ gs_health_obj = [p \in BattleStatuses |-> <<>>]
    /\ gs_hp = [e \in Enemies |-> MaxHp]
    /\ gs_status = "BATTLE_START"
    /\ gs_op = "init"
    /\ gs_raised = "none"
    /\ gs_hits = 0

\* scenes[s].enemy.object = e
AssignEnemy(s, e) ==
    /\ gs_raised = "none"
    /\ gs_enemy_obj' = [gs_enemy_obj EXCEPT ![scene_enemy(s)] = e]
    /\ gs_op' = "assign"
    /\ UNCHANGED <<gs_health_obj, gs_hp, gs_status, gs_raised, gs_hits>>
    /\ UNCHANGED <<menuVars, statusVars, mainVars, enemyVars, playerVars, sceneVars, textVars, spriteVars>>

\* scenes[s].enemy.object.take_damage(w)
HitEnemy(s, w) ==
    /\ gs_raised = "none"
    /\ gs_hits < MaxHits
    /\ gs_enemy_obj[scene_enemy(s)] # None
    /\ LET e == gs_enemy_obj[scene_enemy(s)]
       IN  gs_hp' = [gs_hp EXCEPT ![e] = Enemy_take_damage(gs_hp[e], EnemyWeakness(e), w).hp]
    /\ gs_hits' = gs_hits + 1
    /\ gs_op' = "hit"
    /\ UNCHANGED <<gs_enemy_obj, gs_health_obj, gs_status, gs_raised>>
    /\ UNCHANGED <<menuVars, statusVars, mainVars, enemyVars, playerVars, sceneVars, textVars, spriteVars>>

\* The status changes to another battle status
SetStatus(s) ==
    /\ gs_raised = "none"
    /\ gs_status' = s
    /\ gs_op' = "status"
    /\ UNCHANGED <<gs_enemy_obj, gs_health_obj, gs_hp, gs_raised, gs_hits>>
    /\ UNCHANGED <<menuVars, statusVars, mainVars, enemyVars, playerVars, sceneVars, textVars, spriteVars>>

\* scenes[status].get_surface(status)
RenderStatus ==
    /\ gs_raised = "none"
    /\ LET s == gs_status
           e == gs_enemy_obj[scene_enemy(s)]
           r == BattleScene_get_surface(
                    "dentist", scene_statics(s), scene_menu(s),
                    [object |-> e, pos |-> 0],
                    [object |-> gs_health_obj[scene_healthbar(s)], pos |-> MaxPos],
                    s,
                    IF e = None THEN 0 ELSE gs_hp[e], MaxHp)
       IN  /\ gs_health_obj' = [gs_health_obj EXCEPT ![scene_healthbar(s)] = r.healthbar]
           /\ gs_raised' = r.raised
    /\ gs_op' = "render"
    /\ UNCHANGED <<gs_enemy_obj, gs_hp, gs_status, gs_hits>>
    /\ UNCHANGED <<menuVars, statusVars, mainVars, enemyVars, playerVars, sceneVars, textVars, spriteVars>>

ScenesNext ==
    \/ \E s \in BattleStatuses, e \in Enemies : AssignEnemy(s, e)
    \/ \E s \in BattleStatuses, w \in Weapons : HitEnemy(s, w)
    \/ \E s \in BattleStatuses : SetStatus(s)
    \/ RenderStatus

----------------------------------------------------------------------------
(* TextBox.format_text (game_objects.py) *)

\* The characters of the texts: two letters, the space and the line break
Alphabet == {"a", "b", " ", "\n"}

Texts == UNION {[1..n -> Alphabet] : n \in 0..MaxLen}

Max(S) == CHOOSE x \in S : \A y \in S : y <= x

\* Python's s[k]: the character at 0-based k, a negative k counted from the end
PyIndex(s, k) ==
    LET j == IF k < 0 THEN k + Len(s) ELSE k
    IN  IF j >= 0 /\ j < Len(s) THEN s[j + 1] ELSE "IndexError"

\* A slice bound as Python clamps it
PyBound(s, k) ==
    IF k < 0 THEN (IF k + Len(s) < 0 THEN 0 ELSE k + Len(s))
    ELSE (IF k > Len(s) THEN Len(s) ELSE k)

\* A slice that takes the character at b too.
PySlice_inclusive(s, a, b) ==
    IF PyBound(s, a) < PyBound(s, b + 1) THEN SubSeq(s, PyBound(s, a) + 1, PyBound(s, b + 1))
    ELSE <<>>

\* Python's s[a:b]
PySlice(s, a, b) ==
    IF PyBound(s, a) < PyBound(s, b) THEN SubSeq(s, PyBound(s, a) + 1, PyBound(s, b))
    ELSE <<>>

\* text.split('\n'): the strings between the line breaks, at least one
RECURSIVE split_lines(_, _)
split_lines(text, cur) ==
    IF text = <<>> THEN <<cur>>
    ELSE IF Head(text) = "\n" THEN <<cur>> \o split_lines(Tail(text), <<>>)
    ELSE split_lines(Tail(text), Append(cur, Head(text)))

\* WIDTH = round(self.size[0] // self.font.size('0')[0])
WIDTH(size, glyph) == size \div glyph

\* for i in range(split, idx - 1, -1): leaves at once when i is past the string, stops
\* at the first space met going down; broke tells whether a break left the loop
ForSplit(string, split, idx) ==
    LET range == {i \in idx..split : TRUE}
        spaces == {i \in range : PyIndex(string, i) = " "}
    IN  IF range # {} /\ split >= Len(string) THEN [split |-> split, broke |-> TRUE]
        ELSE IF spaces # {} THEN [split |-> Max(spaces), broke |-> TRUE]
        ELSE [split |-> split, broke |-> FALSE]

\* One pass of the while loop: the line appended and the new prev, idx, split
WhileBody(string, prev, idx, W) ==
    LET f == ForSplit(string, prev + W - 1, idx)
        c == IF f.broke THEN " " ELSE PyIndex(string, f.split - W)
        p == IF ~f.broke /\ c # " " THEN prev - 1 ELSE prev
    IN  [raised |-> IF c = "IndexError" THEN "IndexError" ELSE "none",
         line |-> PySlice(string, p, f.split),
         prev |-> f.split + 1,
         idx |-> f.split + 2,
         split |-> f.split]

TextInit ==
    /\ tb_size \in 0..MaxBoxWidth
    /\ tb_glyph \in 1..MaxGlyph
    /\ tb_text = <<>>
    /\ ft_text \in Texts
    /\ ft_pc = "for"
    /\ ft_lines = split_lines(ft_text, <<>>)
    /\ ft_string = <<>>
    /\ ft_prev = 0
    /\ ft_idx = 0
    /\ ft_split = 0
    /\ ft_n_lines = <<>>
    /\ ft_final_lines = <<>>
    /\ ft_raised = "none"

TextParked ==
    /\ tb_size = 0
    /\ tb_glyph = 1
    /\ tb_text = <<>>
    /\ ft_text = <<>>
    /\ ft_pc = "done"
    /\ ft_lines = <<>>
    /\ ft_string = <<>>
    /\ ft_prev = 0
    /\ ft_idx = 0
    /\ ft_split = 0
    /\ ft_n_lines = <<>>
    /\ ft_final_lines = <<>>
    /\ ft_raised = "none"

\* for string in lines: the next string is taken and the loop variables are reset
NextString ==
    /\ ft_pc = "for"
    /\ ft_lines # <<>>
    /\ ft_string' = Head(ft_lines)
    /\ ft_lines' = Tail(ft_lines)
    /\ ft_prev' = 0
    /\ ft_idx' = 0
    /\ ft_split' = 0
    /\ ft_n_lines' = <<>>
    /\ ft_pc' = "while"
    /\ UNCHANGED <<tb_size, tb_glyph, tb_text, ft_text, ft_final_lines, ft_raised>>
    /\ UNCHANGED <<menuVars, statusVars, mainVars, enemyVars, playerVars, sceneVars, scenesVars, spriteVars>>

\* while idx < len(string): one pass
WhilePass ==
    /\ ft_pc = "while"
    /\ ft_idx < Len(ft_string)
    /\ Len(ft_n_lines) < MaxLines
    /\ LET r == WhileBody(ft_string, ft_prev, ft_idx, WIDTH(tb_size, tb_glyph))
       IN  IF r.raised # "none"
           THEN /\ ft_raised' = r.raised
                /\ ft_pc' = "done"
                /\ UNCHANGED <<ft_prev, ft_idx, ft_split, ft_n_lines>>
           ELSE /\ ft_n_lines' = Append(ft_n_lines, r.line)
                /\ ft_prev' = r.prev
                /\ ft_idx' = r.idx
                /\ ft_split' = r.split
                /\ UNCHANGED <<ft_raised, ft_pc>>
    /\ UNCHANGED <<tb_size, tb_glyph, tb_text, ft_text, ft_lines, ft_string, ft_final_lines>>
    /\ UNCHANGED <<menuVars, statusVars, mainVars, enemyVars, playerVars, sceneVars, scenesVars, spriteVars>>

\* The while loop ends: final_lines += n_lines
EndString ==
    /\ ft_pc = "while"
    /\ ft_idx >= Len(ft_string)
    /\ ft_final_lines' = ft_final_lines \o ft_n_lines
    /\ ft_pc' = "for"
    /\ UNCHANGED <<tb_size, tb_glyph, tb_text, ft_text, ft_lines, ft_string, ft_prev, ft_idx,
                   ft_split, ft_n_lines, ft_raised>>
    /\ UNCHANGED <<menuVars, statusVars, mainVars, enemyVars, playerVars, sceneVars, scenesVars, spriteVars>>

\* return final_lines, which set_text stores: self.text = self.format_text(new_text)
ReturnLines ==
    /\ ft_pc = "for"
    /\ ft_lines = <<>>
    /\ tb_text' = ft_final_lines
    /\ ft_pc' = "done"
    /\ UNCHANGED <<tb_size, tb_glyph, ft_text, ft_lines, ft_string, ft_prev, ft_idx, ft_split,
                   ft_n_lines, ft_final_lines, ft_raised>>
    /\ UNCHANGED <<menuVars, statusVars, mainVars, enemyVars, playerVars, sceneVars, scenesVars, spriteVars>>

TextNext ==
    \/ NextString
    \/ WhilePass
    \/ EndString
    \/ ReturnLines

----------------------------------------------------------------------------
(* Enemy.load_sprites and Enemy.get_sprite (game_objects.py, game.py) *)

\* The keys of self.sprites, in the order __init__ gives them
SpriteKeys(i) ==
    IF i = "game" THEN <<"idle", "hurt", "attack", "defeated">>
    ELSE <<"idle", "hurt", "attack", "defeat">>

\* The statuses of the GameStatus of each file
StatusesOf(i) == IF i = "game" THEN GameStatus_game ELSE GameStatus

\* Enemy.get_sprite of game_objects.py on an enemy whose loaded sprites are given:
\* self.sprites.get(status_sprite.get(status, None), None), then the first value of
\* self.sprites if that is None, then nothing drawn on the transparent surface
Enemy_sprite(sprites, st) ==
    LET status_sprite == [x \in {"BATTLE_START", "BATTLE_MENU", "PLAYER_ATTACK", "ENEMY_ATTACK"}
                            |-> IF x = "PLAYER_ATTACK" THEN "hurt"
                                ELSE IF x = "ENEMY_ATTACK" THEN "attack"
                                ELSE "idle"]
        slot == IF st \in DOMAIN status_sprite THEN status_sprite[st] ELSE None
        first == SpriteKeys("game_objects")[1]
    IN  IF slot \in sprites THEN slot
        ELSE IF first \in sprites THEN first
        ELSE "transparent"

\* Enemy.get_sprite of game.py: self.sprites[status_sprite.get(status, first key)],
\* with a table that knows BATTLE_START only
GameEnemy_sprite(sprites, st) ==
    LET status_sprite == [x \in {"BATTLE_START"} |-> "idle"]
        slot == IF st \in DOMAIN status_sprite THEN status_sprite[st]
                ELSE SpriteKeys("game")[1]
    IN  IF slot \in sprites THEN slot ELSE "transparent"

\* An Enemy as __init__ leaves it: every slot None
SpriteInit ==
    /\ sp_impl \in {"game", "game_objects"}
    /\ sp_sprites = {}
    /\ sp_status = None
    /\ sp_ret = None

SpriteParked ==
    /\ sp_impl = "game_objects"
    /\ sp_sprites = {}
    /\ sp_status = None
    /\ sp_ret = None

\* load_sprites(folder) on a folder that holds the given files: a slot whose file is
\* there gets its sprite, a slot whose file is missing is left as it was
LoadSprites(files) ==
    /\ sp_sprites' = sp_sprites \cup files
    /\ sp_sprites' # sp_sprites
    /\ UNCHANGED <<sp_impl, sp_status, sp_ret>>
    /\ UNCHANGED <<menuVars, statusVars, mainVars, enemyVars, playerVars, sceneVars, scenesVars,
                   textVars>>

\* get_sprite(st)
GetSprite(st) ==
    /\ sp_status' = st
    /\ sp_ret' = IF sp_impl = "game" THEN GameEnemy_sprite(sp_sprites, st)
                 ELSE Enemy_sprite(sp_sprites, st)
    /\ UNCHANGED <<sp_impl, sp_sprites>>
    /\ UNCHANGED <<menuVars, statusVars, mainVars, enemyVars, playerVars, sceneVars, scenesVars,
                   textVars>>

SpriteNext ==
    \/ \E files \in SUBSET {SpriteKeys(sp_impl)[k] : k \in 1..4} : LoadSprites(files)
    \/ \E st \in StatusesOf(sp_impl) : GetSprite(st)

----------------------------------------------------------------------------
(* Specifications *)

\* A Menu object of either class, with any options, under any calls.
InitMenuSpec == MenuInit /\ StatusParked /\ MainInit /\ EnemyParked /\ PlayerParked /\ SceneParked /\ ScenesInit /\ TextParked /\ SpriteParked

SpecMenu == InitMenuSpec /\ [][MenuNext]_vars

\* A Status object under any updates.
InitStatusSpec == MenuParked /\ StatusInit /\ MainInit /\ EnemyParked /\ PlayerParked /\ SceneParked /\ ScenesInit /\ TextParked /\ SpriteParked

SpecStatus == InitStatusSpec /\ [][StatusNext]_vars

\* main() of game.py under any input.
Init == MenuParked /\ StatusParked /\ MainInit /\ EnemyParked /\ PlayerParked /\ SceneParked /\ ScenesInit /\ TextParked /\ SpriteParked

Spec == Init /\ [][MainNext]_vars

\* main() of game.py with the loop running: an iteration that can be made is made.
FairSpec == Spec /\ WF_vars(MainNext)

\* An Enemy object under any hits and health bar renders.
InitEnemySpec == MenuParked /\ StatusParked /\ MainInit /\ EnemyInit /\ PlayerParked /\ SceneParked /\ ScenesInit /\ TextParked /\ SpriteParked

SpecEnemy == InitEnemySpec /\ [][EnemyNext]_vars

\* A Player object under any hits and item uses.
InitPlayerSpec == MenuParked /\ StatusParked /\ MainInit /\ EnemyParked /\ PlayerInit /\ SceneParked /\ ScenesInit /\ TextParked /\ SpriteParked

SpecPlayer == InitPlayerSpec /\ [][PlayerNext]_vars

\* A Scene or BattleScene object with any contents, rendered.
InitSceneSpec ==
    MenuParked /\ StatusParked /\ MainInit /\ EnemyParked /\ PlayerParked /\ SceneInit
    /\ ScenesInit /\ TextParked /\ SpriteParked

SpecScene == InitSceneSpec /\ [][SceneNext]_vars

\* The scenes of generate_scenes: an enemy is assigned, hit, and the scenes are rendered.
InitScenesSpec ==
    MenuParked /\ StatusParked /\ MainInit /\ EnemyParked /\ PlayerParked /\ SceneParked
    /\ ScenesInit /\ TextParked /\ SpriteParked

SpecScenes == InitScenesSpec /\ [][ScenesNext]_vars

\* One call of set_text on a TextBox of any width, with any text.
InitTextSpec ==
    MenuParked /\ StatusParked /\ MainInit /\ EnemyParked /\ PlayerParked /\ SceneParked
    /\ ScenesInit /\ TextInit /\ SpriteParked

SpecText == InitTextSpec /\ [][TextNext]_vars

\* The call of set_text running: a step format_text can take is taken.
FairSpecText == SpecText /\ WF_vars(TextNext)

\* An Enemy of either class: sprites are loaded and get_sprite is called with any status.
InitSpriteSpec ==
    MenuParked /\ StatusParked /\ MainInit /\ EnemyParked /\ PlayerParked /\ SceneParked
    /\ ScenesInit /\ TextParked /\ SpriteInit

SpecSprite == InitSpriteSpec /\ [][SpriteNext]_vars

----------------------------------------------------------------------------
(* Properties of Menu, checked under SpecMenu *)

\* C1: for a menu with N >= 1 options, after any sequence of update_option(d) calls
\* the index equals (sum of all d) mod N.
C1_IndexIsSumModN ==
    Len(options) >= 1 => current_option = sum_diff % Len(options)

\* C2: for a menu with N >= 1 options the index is always valid: 0 <= current_option < N.
C2_IndexValid ==
    Len(options) >= 1 => (current_option >= 0 /\ current_option < Len(options))

\* C2 witness: an update below zero has wrapped to the last of at least two options.
C2_Witness ==
    /\ Len(options) >= 2
    /\ last_op = "update_option"
    /\ sum_diff < 0
    /\ current_option = Len(options) - 1

\* C3: update_option on a menu with no options never raises and leaves the index at 0.
C3_EmptyUpdateIsNoOp ==
    (Len(options) = 0 /\ last_op = "update_option")
        => (raised = "none" /\ current_option = 0)

\* C4: for a menu with N >= 1 options and an index i in [0, N), get_option returns the
\* payload of the i-th option in insertion order and changes neither index nor options.
C4_GetOptionReturnsSelected ==
    [][ (last_op' = "get_option" /\ calls' = calls + 1
            /\ Len(options) >= 1 /\ current_option >= 0 /\ current_option < Len(options))
        => /\ raised' = "none"
           /\ result' = options[current_option + 1][2]
           /\ current_option' = current_option
           /\ options' = options ]_vars

\* C4 witness: get_option has returned the payload of an option other than the first,
\* one that differs from the first option's.
C4_Witness ==
    /\ Len(options) >= 2
    /\ last_op = "get_option"
    /\ raised = "none"
    /\ current_option >= 1
    /\ current_option < Len(options)
    /\ result = options[current_option + 1][2]
    /\ result # options[1][2]

\* C5: get_option on a menu with no options returns None instead of raising.
C5_EmptyGetReturnsNone ==
    (Len(options) = 0 /\ last_op = "get_option") => (raised = "none" /\ result = None)

----------------------------------------------------------------------------
(* Properties of Status, checked under SpecStatus *)

\* C7: Status.update(None) leaves status, weapon and item unchanged, and the status is
\* never set to a value that is no GameStatus.
C7_NonePayloadIgnored ==
    /\ [][ st_arg' = None
           => (st_status' = st_status /\ st_weapon' = st_weapon /\ st_item' = st_item) ]_vars
    /\ [](st_status \in GameStatus)

\* C7 witness: update(None) was the last call, made after a weapon had been chosen.
C7_Witness ==
    /\ st_arg = None
    /\ st_status = "PLAYER_ATTACK"
    /\ st_weapon \in Weapons

\* C8: Status.update with a Weapon sets the status to PLAYER_ATTACK and records the
\* weapon; with an Item it sets USE_ITEM and records the item; with a GameStatus it sets
\* the status to that value and leaves the recorded weapon and item unchanged.
C8_UpdateByPayloadKind ==
    [][ /\ st_arg' \in Weapons => (st_status' = "PLAYER_ATTACK" /\ st_weapon' = st_arg')
        /\ st_arg' \in Items => (st_status' = "USE_ITEM" /\ st_item' = st_arg')
        /\ st_arg' \in GameStatus
           => (st_status' = st_arg' /\ st_weapon' = st_weapon /\ st_item' = st_item) ]_vars

\* C8 witness: an item was recorded by the last call, a weapon by an earlier one.
C8_Witness ==
    /\ st_arg \in Items
    /\ st_item = st_arg
    /\ st_status = "USE_ITEM"
    /\ st_weapon \in Weapons

----------------------------------------------------------------------------
(* Properties of main() of game.py, checked under Spec and FairSpec *)

\* C6: the loop starts in TITLE_SCREEN; the status changes only when K_RETURN arrives
\* while a menu is active, and then becomes the payload of the selected option of that
\* menu; K_UP and K_DOWN change only the menu index.
C6_StatusChangesOnlyOnConfirm ==
    /\ status = "TITLE_SCREEN"
    /\ [][ /\ status' # status
              => /\ pc = "events" /\ events # <<>> /\ Head(events) = "K_RETURN"
                 /\ active_menu = "TITLE_SCREEN"
                 /\ status' = TitleOptions[title_option + 1][2]
           /\ (pc = "events" /\ events # <<>> /\ Head(events) \in {"K_UP", "K_DOWN"})
              => UNCHANGED <<status, playing, active_menu, active_overlay, enemy,
                             battle_overlay, pc, error>> ]_vars

\* C6 witness: after a K_DOWN and a K_RETURN on the title menu the status is CREDITS.
C6_Witness ==
    /\ status = "CREDITS"
    /\ title_option = 1

\* C9: the loop ends when the status becomes EXIT or a quit event is received: that
\* iteration is the last one, no later batch of events is polled, and nothing else ends
\* the loop.
C9_LoopEndsOnExitOrQuit ==
    [][ /\ (playing /\ ~playing')
           => \/ pc = "events" /\ events # <<>> /\ Head(events) = "QUIT"
              \/ pc = "events" /\ events = <<>> /\ status = "EXIT"
        /\ (pc = "events" /\ pc' = "loop" /\ (status = "EXIT" \/ ~playing)) => ~playing'
        /\ ~playing => ~playing'
        /\ ~playing => ~(pc = "loop" /\ pc' = "events")
        /\ (~playing /\ pc = "loop" /\ pc' # pc) => pc' = "done"
        /\ pc' = "done" => ~playing ]_vars

\* C9 witness: the loop has been left after Exit was selected on the title menu.
C9_Witness ==
    /\ pc = "done"
    /\ status = "EXIT"
    /\ ~playing

\* C10: once the status is BATTLE_START and an enemy has been chosen, the status
\* eventually becomes BATTLE_MENU without any input, provided the loop keeps running.
\* (Stated so that only a run that gets no input at all and never ends can refute it.)
C10_BattleStartLeadsToBattleMenu ==
    (status = "BATTLE_START" /\ enemy # None)
        ~> (status = "BATTLE_MENU" \/ pc = "done" \/ events # <<>>)

----------------------------------------------------------------------------
(* Properties of Enemy, checked under SpecEnemy *)

\* C11: after any sequence of take_damage calls the enemy's hp stays within
\* [0, max_hp], and the health bar never shows a negative hp.
C11_EnemyHpInRange ==
    /\ en_hp >= 0
    /\ en_hp <= en_max_hp
    /\ (en_bar # <<>> => en_bar[1] >= 0)

\* C12: take_damage(weapon) lowers the hp by 4 when weapon.type is the enemy's weakness
\* and by 2 otherwise, returns the amount it subtracted, and leaves max_hp unchanged.
C12_TakeDamageAmount ==
    [][ en_calls' = en_calls + 1
        => /\ en_hp' = en_hp - (IF weapon_type(en_arg') = en_weakness THEN 4 ELSE 2)
           /\ en_ret' = en_hp - en_hp'
           /\ en_max_hp' = en_max_hp ]_vars

\* C12 witness: a hit by the weakness took 4 from an hp that was already below zero.
C12_Witness ==
    /\ en_op = "take_damage"
    /\ weapon_type(en_arg) = en_weakness
    /\ en_ret = 4
    /\ en_hp < -4

----------------------------------------------------------------------------
(* Properties of Player, checked under SpecPlayer *)

\* C13: after any sequence of take_damage(dmg) and use(item) calls the player's hp stays
\* within [0, max_hp]: take_damage subtracts max(0, dmg - defence / 2), never raises the
\* hp, and clamps it at 0.
C13_PlayerHpInRange ==
    /\ [](pl_hp2 >= 0 /\ pl_hp2 <= 2 * pl_max_hp)
    /\ [][ /\ pl_hp2' <= pl_hp2
           /\ (pl_calls' = pl_calls + 1 /\ pl_op' = "take_damage")
              => LET raw2 == pl_arg2' - pl_defence
                     taken2 == IF raw2 > 0 THEN raw2 ELSE 0
                 IN  /\ pl_ret2' = taken2
                     /\ pl_hp2' = (IF pl_hp2 - taken2 > 0 THEN pl_hp2 - taken2 ELSE 0) ]_vars

\* C13 witness: with a defence of at least 1, a hit larger than the whole hp emptied it.
C13_Witness ==
    /\ pl_op = "take_damage"
    /\ pl_defence >= 1
    /\ pl_hp2 = 0
    /\ pl_ret2 > 2 * pl_max_hp

----------------------------------------------------------------------------
(* Properties of Scene and BattleScene, checked under SpecScene *)

\* The cells a Printable's image covers with ink
Inked(image, pos) ==
    {c \in 1..NCells : c > pos /\ c <= pos + Len(image) /\ image[c - pos] # "transparent"}

\* C14: Scene.get_surface draws the background fill, then the background image, then
\* every static Printable in the insertion order of the statics, then the menu last; so
\* where statics and the menu overlap, the menu's pixels are the ones that remain.
C14_SceneDrawOrder ==
    (sc_kind = "Scene" /\ sc_renders > 0)
    => LET set == SelectSeq(sc_statics, LAMBDA st : st.object # None)
       IN  /\ sc_log = <<<<"fill", "white">>>>
                       \o (IF sc_bg # None THEN <<<<"bg", sc_bg>>>> ELSE <<>>)
                       \o [i \in 1..Len(set) |-> <<"static", set[i].key>>]
                       \o (IF sc_menu.object # None
                           THEN <<<<"menu", sc_menu.object>>>> ELSE <<>>)
           /\ sc_menu.object # None
              => \A c \in Inked(ObjectImage(sc_menu.object), sc_menu.pos) :
                     sc_surface[c] = ObjectImage(sc_menu.object)[c - sc_menu.pos]

\* C14 witness: a rendered Scene whose two statics and menu all cover one cell, which
\* shows the menu.
C14_Witness ==
    /\ sc_kind = "Scene"
    /\ sc_renders > 0
    /\ Len(sc_statics) = 2
    /\ sc_statics[1].object # None
    /\ sc_statics[2].object # None
    /\ sc_menu.object = "menu_opaque"
    /\ \E c \in 1..NCells :
          /\ c \in Inked(ObjectImage(sc_statics[1].object), sc_statics[1].pos)
          /\ c \in Inked(ObjectImage(sc_statics[2].object), sc_statics[2].pos)
          /\ c \in Inked(ObjectImage(sc_menu.object), sc_menu.pos)
          /\ sc_surface[c] = "menu_opaque"

\* C15: in a BattleScene render nothing (neither the enemy sprite nor the health bar) is
\* drawn after the menu's sub-image.
C15_BattleMenuDrawnLast ==
    (sc_kind = "BattleScene" /\ sc_renders > 0 /\ sc_raised = "none"
        /\ sc_menu.object # None)
    => sc_log[Len(sc_log)][1] = "menu"

\* C16: rendering a scene never fails because a Printable's object is unset: a static, a
\* menu, an enemy or a health bar with no object is skipped.
C16_UnsetPrintableSkipped ==
    sc_renders > 0 => sc_raised = "none"

----------------------------------------------------------------------------
(* Properties of the scenes of generate_scenes, checked under SpecScenes *)

\* C17: all battle scenes share one enemy Printable and one health bar Printable: after
\* an enemy is assigned through any one of them, and after any hits and status changes,
\* every one of them refers to the same Enemy and renders the same current hp.
C17_BattleScenesShareEnemy ==
    /\ [](\A s, t \in BattleStatuses :
            /\ gs_enemy_obj[scene_enemy(s)] = gs_enemy_obj[scene_enemy(t)]
            /\ gs_health_obj[scene_healthbar(s)] = gs_health_obj[scene_healthbar(t)])
    /\ [][ (gs_op' = "render" /\ gs_raised' = "none")
           => \A t \in BattleStatuses :
                 gs_health_obj'[scene_healthbar(t)]
                     = Enemy_get_healthbar(gs_hp[gs_enemy_obj[scene_enemy(t)]], MaxHp) ]_vars

\* C17 witness: an enemy was hit, the status is no longer BATTLE_START, and the scene
\* of the status has rendered the lowered hp.
C17_Witness ==
    /\ gs_op = "render"
    /\ gs_raised = "none"
    /\ gs_status = "PLAYER_ATTACK"
    /\ gs_hits >= 2
    /\ gs_enemy_obj[scene_enemy("ENEMY_ATTACK")] = "plaque"
    /\ gs_health_obj[scene_healthbar("BATTLE_MENU")][1] = gs_hp["plaque"]
    /\ gs_hp["plaque"] < MaxHp

----------------------------------------------------------------------------
(* Properties of TextBox.format_text, checked under SpecText *)

\* C18: for every text and every column budget W >= 1, every line format_text produces
\* has at most W characters.
C18_LinesFitWidth ==
    WIDTH(tb_size, tb_glyph) >= 1
        => /\ \A i \in 1..Len(ft_n_lines) : Len(ft_n_lines[i]) <= WIDTH(tb_size, tb_glyph)
           /\ \A i \in 1..Len(ft_final_lines) :
                 Len(ft_final_lines[i]) <= WIDTH(tb_size, tb_glyph)
           /\ \A i \in 1..Len(tb_text) : Len(tb_text[i]) <= WIDTH(tb_size, tb_glyph)

\* C18 witness: a text longer than the budget was wrapped into several lines, one of
\* them as long as the budget allows.
C18_Witness ==
    /\ ft_pc = "done"
    /\ ft_raised = "none"
    /\ WIDTH(tb_size, tb_glyph) \in 2..(Len(ft_text) - 1)
    /\ Len(tb_text) >= 2
    /\ \E i \in 1..Len(tb_text) : Len(tb_text[i]) = WIDTH(tb_size, tb_glyph)

\* The words of a text: its longest runs of characters other than space and line break
RECURSIVE Words(_, _)
Words(text, cur) ==
    IF text = <<>> THEN (IF cur = <<>> THEN <<>> ELSE <<cur>>)
    ELSE IF Head(text) \in {" ", "\n"}
         THEN (IF cur = <<>> THEN <<>> ELSE <<cur>>) \o Words(Tail(text), <<>>)
         ELSE Words(Tail(text), Append(cur, Head(text)))

\* The lines joined again, a space between one line and the next
RECURSIVE Rejoin(_)
Rejoin(lines) ==
    IF lines = <<>> THEN <<>>
    ELSE IF Len(lines) = 1 THEN lines[1]
    ELSE lines[1] \o <<" ">> \o Rejoin(Tail(lines))

\* C19: for a text with no word longer than the column budget, the wrapped lines joined
\* again have the words of the text: no character of any word is dropped.
C19_WrapKeepsWords ==
    ( /\ ft_pc = "done"
      /\ ft_raised = "none"
      /\ \A i \in 1..Len(Words(ft_text, <<>>)) :
            Len(Words(ft_text, <<>>)[i]) <= WIDTH(tb_size, tb_glyph) )
        => Words(Rejoin(tb_text), <<>>) = Words(ft_text, <<>>)

\* C20: format_text of the empty string, as set_text("") stores it, is exactly one
\* line, and that line is empty.
C20_EmptyTextOneEmptyLine ==
    (ft_pc = "done" /\ ft_raised = "none" /\ ft_text = <<>>) => tb_text = << <<>> >>

\* The lines put one after the other with nothing between them
RECURSIVE Concat(_)
Concat(lines) == IF lines = <<>> THEN <<>> ELSE Head(lines) \o Concat(Tail(lines))

\* C21: a single word without spaces that is longer than the column budget W is split
\* by character count: the lines, concatenated in order, are the word, and each line
\* has at most W characters.
C21_LongWordForceSplit ==
    ( /\ ft_pc = "done"
      /\ ft_raised = "none"
      /\ WIDTH(tb_size, tb_glyph) >= 1
      /\ Len(ft_text) > WIDTH(tb_size, tb_glyph)
      /\ \A i \in 1..Len(ft_text) : ft_text[i] \notin {" ", "\n"} )
        => /\ Concat(tb_text) = ft_text
           /\ \A i \in 1..Len(tb_text) : Len(tb_text[i]) <= WIDTH(tb_size, tb_glyph)

----------------------------------------------------------------------------
(* Properties of Enemy.get_sprite, checked under SpecSprite *)

\* C22: get_sprite(status) resolves the slot by the fixed table (BATTLE_START and
\* BATTLE_MENU -> idle, PLAYER_ATTACK -> hurt, ENEMY_ATTACK -> attack, any other status
\* -> idle) and returns that slot's sprite, or a fully transparent image when the
\* resolved slot has no loaded sprite.
C22_GetSpriteByTable ==
    sp_status # None
        => LET slot == IF sp_status = "PLAYER_ATTACK" THEN "hurt"
                       ELSE IF sp_status = "ENEMY_ATTACK" THEN "attack"
                       ELSE "idle"
           IN  sp_ret = IF slot \in sp_sprites THEN slot ELSE "transparent"

----------------------------------------------------------------------------
(* Termination of TextBox.format_text, checked under FairSpecText *)

\* C23: format_text terminates on every text and every box size, a box narrower than
\* one glyph (column budget 0) included: each pass of its while loop moves the scan
\* position idx strictly forward, and the call returns.
C23_FormatTextTerminates ==
    /\ [][ (ft_pc = "while" /\ ft_pc' = "while" /\ ft_n_lines' # ft_n_lines)
           => ft_idx' > ft_idx ]_vars
    /\ <>(ft_pc = "done")

----------------------------------------------------------------------------
(* Properties of the BATTLE_START branch of main(), checked under Spec *)

\* C24: whenever the BATTLE_START branch runs, the active overlay is the BATTLE_START
\* list (the assertion never fails), one enemy is chosen on the first such frame and
\* never replaced, and after any number of frames the list holds exactly three entries
\* in fixed order (background, enemy sprite, health bar), replaced in place.
C24_BattleOverlayThreeEntries ==
    /\ [](error # "AssertionError")
    /\ [][enemy # None => enemy' = enemy]_vars
    /\ [][ (pc = "events" /\ events = <<>> /\ status = "BATTLE_START" /\ pc' # pc)
           => /\ pc' = "loop"
              /\ active_overlay' = "BATTLE_START"
              /\ enemy' \in Enemies
              /\ battle_overlay' = <<BattleOverlayInit[1],
                                     GameEnemy_get_sprite(enemy', "BATTLE_START"),
                                     GameEnemy_get_healthbar(enemy')>> ]_vars
    /\ [](Len(battle_overlay) = IF enemy = None THEN 1 ELSE 3)

\* C24 witness: the branch has run, the list has its three entries, and the loop is in
\* a later iteration with the status still BATTLE_START.
C24_Witness ==
    /\ status = "BATTLE_START"
    /\ pc = "events"
    /\ events # <<>>
    /\ enemy \in Enemies
    /\ active_overlay = "BATTLE_START"
    /\ Len(battle_overlay) = 3

====
